---- MODULE Spec2Model ----
(***************************************************************************)
(* Model of calendar_events.py: the date range resolver                    *)
(* (parse_human_date, parse_date_arguments), the event filter and          *)
(* formatter (should_include_event, format_datetime, the loop of           *)
(* fetch_calendar_events) and the control flow of main with its two        *)
(* output streams.                                                         *)
(*                                                                         *)
(* Python str values are sequences of one-character strings, so that       *)
(* strip, lower, split, replace and the parsers are computed, not assumed. *)
(* An optional value (None, or a dict key that is absent) is a sequence of *)
(* length 0 or 1: None is << >> and a present value x is << x >>.          *)
(***************************************************************************)
EXTENDS Integers, Sequences, FiniteSets, TLC

VARIABLES
    pc,             \* position of the run, or of the function under study
    arg,            \* the inputs of the run / of the function under study
    ret,            \* the value the function under study returned
    date_range,     \* main: what parse_date_arguments returned (start, end)
    user_email,     \* fetch_calendar_events: user_email
    events,         \* fetch_calendar_events: events (the provider's items)
    filtered_events,\* fetch_calendar_events: filtered_events
    idx,            \* fetch_calendar_events: position of the for loop
    stdout,         \* lines written to sys.stdout
    stderr,         \* lines written to sys.stderr
    exit_code,      \* process exit status, None while running
    calls           \* the invocations of the external collaborators, in order

vars == << pc, arg, ret, date_range, user_email, events, filtered_events, idx,
           stdout, stderr, exit_code, calls >>

None == << >>
Some(x) == << x >>
IsNone(o) == Len(o) = 0
Get(o) == o[1]

(***************************************************************************)
(* Python str methods on character sequences.                              *)
(***************************************************************************)
UpperToLower ==
    ("A" :> "a") @@ ("B" :> "b") @@ ("C" :> "c") @@ ("D" :> "d") @@ ("E" :> "e") @@
    ("F" :> "f") @@ ("G" :> "g") @@ ("H" :> "h") @@ ("I" :> "i") @@ ("J" :> "j") @@
    ("K" :> "k") @@ ("L" :> "l") @@ ("M" :> "m") @@ ("N" :> "n") @@ ("O" :> "o") @@
    ("P" :> "p") @@ ("Q" :> "q") @@ ("R" :> "r") @@ ("S" :> "s") @@ ("T" :> "t") @@
    ("U" :> "u") @@ ("V" :> "v") @@ ("W" :> "w") @@ ("X" :> "x") @@ ("Y" :> "y") @@
    ("Z" :> "z")

LowerChar(c) == IF c \in DOMAIN UpperToLower THEN UpperToLower[c] ELSE c

\* str.lower()
Lower(s) == [i \in 1..Len(s) |-> LowerChar(s[i])]

IsSpace(c) == c \in {" ", "\t", "\n"}

RECURSIVE LStrip(_)
LStrip(s) == IF s # << >> /\ IsSpace(Head(s)) THEN LStrip(Tail(s)) ELSE s

RECURSIVE RStrip(_)
RStrip(s) ==
    IF s # << >> /\ IsSpace(s[Len(s)]) THEN RStrip(SubSeq(s, 1, Len(s) - 1)) ELSE s

\* str.strip()
Strip(s) == RStrip(LStrip(s))

\* str.rstrip(chars) for a single character
RECURSIVE RStripChar(_, _)
RStripChar(s, c) ==
    IF s # << >> /\ s[Len(s)] = c THEN RStripChar(SubSeq(s, 1, Len(s) - 1), c) ELSE s

\* str.startswith(p)
StartsWith(s, p) == Len(s) >= Len(p) /\ SubSeq(s, 1, Len(p)) = p

\* str.endswith(p)
EndsWith(s, p) == Len(s) >= Len(p) /\ SubSeq(s, Len(s) - Len(p) + 1, Len(s)) = p

\* p in s
Contains(s, p) ==
    \E i \in 1..(Len(s) - Len(p) + 1) : SubSeq(s, i, i + Len(p) - 1) = p

\* s[n:]
DropFirst(s, n) == SubSeq(s, n + 1, Len(s))

\* str.replace(old, new), old non-empty: leftmost non-overlapping occurrences
RECURSIVE Replace(_, _, _)
Replace(s, old, new) ==
    IF s = << >> THEN << >>
    ELSE IF StartsWith(s, old)
         THEN new \o Replace(DropFirst(s, Len(old)), old, new)
         ELSE << Head(s) >> \o Replace(Tail(s), old, new)

\* str.split() with no argument: split on runs of whitespace, no empty parts
RECURSIVE SplitAcc(_, _, _)
SplitAcc(s, cur, acc) ==
    IF s = << >>
    THEN IF cur = << >> THEN acc ELSE Append(acc, cur)
    ELSE IF IsSpace(Head(s))
         THEN SplitAcc(Tail(s), << >>, IF cur = << >> THEN acc ELSE Append(acc, cur))
         ELSE SplitAcc(Tail(s), Append(cur, Head(s)), acc)

Split(s) == SplitAcc(s, << >>, << >>)

\* str.split(sep) for a single-character separator: empty parts are kept
RECURSIVE SplitOnAcc(_, _, _, _)
SplitOnAcc(s, sep, cur, acc) ==
    IF s = << >> THEN Append(acc, cur)
    ELSE IF Head(s) = sep
         THEN SplitOnAcc(Tail(s), sep, << >>, Append(acc, cur))
         ELSE SplitOnAcc(Tail(s), sep, Append(cur, Head(s)), acc)

SplitOn(s, sep) == SplitOnAcc(s, sep, << >>, << >>)

DigitValue ==
    ("0" :> 0) @@ ("1" :> 1) @@ ("2" :> 2) @@ ("3" :> 3) @@ ("4" :> 4) @@
    ("5" :> 5) @@ ("6" :> 6) @@ ("7" :> 7) @@ ("8" :> 8) @@ ("9" :> 9)

IsDigit(c) == c \in DOMAIN DigitValue

AllDigits(s) == s # << >> /\ \A i \in 1..Len(s) : IsDigit(s[i])

RECURSIVE DigitsValue(_)
DigitsValue(s) ==
    IF s = << >> THEN 0
    ELSE 10 * DigitsValue(SubSeq(s, 1, Len(s) - 1)) + DigitValue[s[Len(s)]]

\* int(s): an optional sign and decimal digits; anything else is a ValueError
ParseInt(s) ==
    LET signed == s # << >> /\ Head(s) \in {"+", "-"}
        body == IF signed THEN Tail(s) ELSE s
    IN  IF AllDigits(body)
        THEN [ok |-> TRUE,
              val |-> IF signed /\ Head(s) = "-" THEN 0 - DigitsValue(body)
                      ELSE DigitsValue(body)]
        ELSE [ok |-> FALSE, val |-> 0]

DigitChar == << "0", "1", "2", "3", "4", "5", "6", "7", "8", "9" >>

\* the decimal digits of n >= 0, without padding (str(n))
RECURSIVE Str(_)
Str(n) == IF n < 10 THEN << DigitChar[n + 1] >>
          ELSE Str(n \div 10) \o << DigitChar[(n % 10) + 1] >>

\* n formatted on w digits, zero padded (strftime's %Y, %m, %d, %H, %M, %S)
RECURSIVE Pad(_, _)
Pad(n, w) == IF w = 0 THEN << >>
             ELSE Pad(n \div 10, w - 1) \o << DigitChar[(n % 10) + 1] >>

(***************************************************************************)
(* The proleptic Gregorian calendar of datetime: ordinals and fields.      *)
(***************************************************************************)
IsLeap(y) == (y % 4 = 0) /\ ((y % 100 # 0) \/ (y % 400 = 0))

DaysInMonthTable == << 31, 28, 31, 30, 31, 30, 31, 31, 30, 31, 30, 31 >>

DaysInMonth(y, m) == IF m = 2 /\ IsLeap(y) THEN 29 ELSE DaysInMonthTable[m]

DaysBeforeMonthTable == << 0, 31, 59, 90, 120, 151, 181, 212, 243, 273, 304, 334 >>

DaysBeforeMonth(y, m) ==
    DaysBeforeMonthTable[m] + (IF m > 2 /\ IsLeap(y) THEN 1 ELSE 0)

DaysBeforeYear(y) ==
    (y - 1) * 365 + ((y - 1) \div 4) - ((y - 1) \div 100) + ((y - 1) \div 400)

\* date.toordinal(): 0001-01-01 is day 1
Ymd2Ord(y, m, d) == DaysBeforeYear(y) + DaysBeforeMonth(y, m) + d

\* date.fromordinal(): the steps of datetime's _ord2ymd.  n400, n100, n4 and
\* n1 count the whole 400-, 100-, 4- and 1-year cycles before the day, n is
\* the day's position in its year, counted from 0.
Ord2YmdDay(year, n, leapyear, month, preceding) ==
    IF preceding > n
    THEN [year |-> year, month |-> month - 1,
          day |-> n - (preceding - (DaysInMonthTable[month - 1]
                                    + (IF month - 1 = 2 /\ leapyear THEN 1 ELSE 0))) + 1]
    ELSE [year |-> year, month |-> month, day |-> n - preceding + 1]

Ord2YmdMonth(year, n, leapyear, month) ==
    Ord2YmdDay(year, n, leapyear, month,
               DaysBeforeMonthTable[month] + (IF month > 2 /\ leapyear THEN 1 ELSE 0))

Ord2YmdYear(year, n100, n4, n1, n) ==
    IF n1 = 4 \/ n100 = 4
    THEN [year |-> year - 1, month |-> 12, day |-> 31]
    ELSE Ord2YmdMonth(year, n, n1 = 3 /\ (n4 # 24 \/ n100 = 3), (n + 50) \div 32)

Ord2Ymd4(n400, n100, n4, r) ==
    Ord2YmdYear(n400 * 400 + 1 + n100 * 100 + n4 * 4 + (r \div 365),
                n100, n4, r \div 365, r % 365)

Ord2Ymd100(n400, n100, r) == Ord2Ymd4(n400, n100, r \div 1461, r % 1461)

Ord2Ymd400(n400, r) == Ord2Ymd100(n400, r \div 36524, r % 36524)

Ord2Ymd(ord) == Ord2Ymd400((ord - 1) \div 146097, (ord - 1) % 146097)

(***************************************************************************)
(* Naive datetime values: the fields of datetime.datetime.                 *)
(***************************************************************************)
DateTime(y, m, d, hh, mi, ss, us) ==
    [year |-> y, month |-> m, day |-> d,
     hour |-> hh, minute |-> mi, second |-> ss, microsecond |-> us]

\* dt.replace(hour=hh, minute=mi, second=ss, microsecond=us)
ReplaceTime(dt, hh, mi, ss, us) ==
    [dt EXCEPT !.hour = hh, !.minute = mi, !.second = ss, !.microsecond = us]

Midnight(dt) == ReplaceTime(dt, 0, 0, 0, 0)

EndOfDay(dt) == ReplaceTime(dt, 23, 59, 59, 999999)

Ordinal(dt) == Ymd2Ord(dt.year, dt.month, dt.day)

SecondOfDay(dt) == dt.hour * 3600 + dt.minute * 60 + dt.second

\* dt.replace(year=, month=, day=)
ReplaceDate(dt, f) == [dt EXCEPT !.year = f.year, !.month = f.month, !.day = f.day]

\* dt + timedelta(days=n)
AddDays(dt, n) == ReplaceDate(dt, Ord2Ymd(Ordinal(dt) + n))

\* dt + timedelta(weeks=n)
AddWeeks(dt, n) == AddDays(dt, 7 * n)

\* a < b on naive datetimes
DtLess(a, b) ==
    \/ Ordinal(a) < Ordinal(b)
    \/ /\ Ordinal(a) = Ordinal(b)
       /\ \/ SecondOfDay(a) < SecondOfDay(b)
          \/ /\ SecondOfDay(a) = SecondOfDay(b)
             /\ a.microsecond < b.microsecond

DtLeq(a, b) == ~DtLess(b, a)

(***************************************************************************)
(* dateutil.relativedelta, as far as parse_human_date uses it:             *)
(* relativedelta(years=, months=) added to a datetime.  The constructor    *)
(* carries whole years out of months; the addition shifts the year and     *)
(* month fields and clamps the day to the length of the target month.  A   *)
(* year outside 1..9999 is datetime's ValueError (ok = FALSE).             *)
(***************************************************************************)
MINYEAR == 1
MAXYEAR == 9999

Sign(n) == IF n < 0 THEN 0 - 1 ELSE 1

AddRelativeDelta(dt, years, months) ==
    LET s == Sign(months)
        fixMonths == IF months * s > 11 THEN ((months * s) % 12) * s ELSE months
        fixYears == IF months * s > 11 THEN years + ((months * s) \div 12) * s
                    ELSE years
        y0 == dt.year + fixYears
        m0 == dt.month + fixMonths
        year == IF m0 > 12 THEN y0 + 1 ELSE IF m0 < 1 THEN y0 - 1 ELSE y0
        month == IF m0 > 12 THEN m0 - 12 ELSE IF m0 < 1 THEN m0 + 12 ELSE m0
    IN  IF year < MINYEAR \/ year > MAXYEAR
        THEN [ok |-> FALSE, dt |-> dt]
        ELSE [ok |-> TRUE,
              dt |-> [dt EXCEPT !.year = year, !.month = month,
                                !.day = IF dt.day > DaysInMonth(year, month)
                                        THEN DaysInMonth(year, month)
                                        ELSE dt.day]]

\* faulty variant: subtracts a fixed number of days
SubRelativeDeltaFixed(dt, years, months) ==
    [ok |-> TRUE, dt |-> AddDays(dt, 0 - (365 * years + 30 * months))]

\* dt - relativedelta(years=, months=): the negated delta is added
SubRelativeDelta(dt, years, months) == AddRelativeDelta(dt, 0 - years, 0 - months)

(***************************************************************************)
(* Words of parse_human_date.                                              *)
(***************************************************************************)
W_ago == << "a", "g", "o" >>
W_in == << "i", "n", " " >>
W_day == << "d", "a", "y" >>
W_days == << "d", "a", "y", "s" >>
W_week == << "w", "e", "e", "k" >>
W_weeks == << "w", "e", "e", "k", "s" >>
W_month == << "m", "o", "n", "t", "h" >>
W_months == << "m", "o", "n", "t", "h", "s" >>
W_year == << "y", "e", "a", "r" >>
W_years == << "y", "e", "a", "r", "s" >>
W_today == << "t", "o", "d", "a", "y" >>
W_yesterday == << "y", "e", "s", "t", "e", "r", "d", "a", "y" >>
W_tomorrow == << "t", "o", "m", "o", "r", "r", "o", "w" >>

(***************************************************************************)
(* datetime.strptime(s, '%Y-%m-%d'): four digits, then one or two digits   *)
(* for the month and for the day, and the date must exist.                 *)
(***************************************************************************)
ParseYmd(s) ==
    LET f == SplitOn(s, "-")
        shaped == /\ Len(f) = 3
                  /\ AllDigits(f[1]) /\ Len(f[1]) = 4
                  /\ AllDigits(f[2]) /\ Len(f[2]) \in {1, 2}
                  /\ AllDigits(f[3]) /\ Len(f[3]) \in {1, 2}
        y == DigitsValue(f[1])
        m == DigitsValue(f[2])
        d == DigitsValue(f[3])
    IN  IF shaped /\ y >= MINYEAR /\ m \in 1..12 /\ d >= 1 /\ d <= DaysInMonth(y, m)
        THEN [ok |-> TRUE, dt |-> DateTime(y, m, d, 0, 0, 0, 0)]
        ELSE [ok |-> FALSE, dt |-> DateTime(1, 1, 1, 0, 0, 0, 0)]

Strptime(s) == ParseYmd(s)

(***************************************************************************)
(* dateutil.parser.parse(date_str, default=today) on the strings of the    *)
(* model: a numeric year-month-day date is understood (every field is      *)
(* given, so nothing is filled from default); every other string of the    *)
(* model (relative phrases that fell through, misspelt words, impossible   *)
(* dates) is a ValueError.  Weekday and month names and times of day are   *)
(* not among the inputs.                                                   *)
(***************************************************************************)
DateutilParse(date_str, today) ==
    LET r == ParseYmd(date_str)
    IN  IF r.ok THEN r ELSE [ok |-> FALSE, dt |-> today]

(***************************************************************************)
(* parse_human_date.  now is the value datetime.now() returns at line 77.  *)
(* The result is [ok |-> TRUE, dt] or, for the ValueError of line 138,     *)
(* [ok |-> FALSE, error] with the message as a sequence: the two literal   *)
(* pieces of the f-string are one element each, the characters of the      *)
(* interpolated date_str lie between them.                                 *)
(***************************************************************************)
MsgCouldNotParse == "Could not parse date: '"
MsgTryFormats ==
    "'. Try formats like '2024-01-15', 'yesterday', '2 weeks ago', 'next Monday', etc."

\* lines 81-98: Some(datetime) when the branch returns, None when it falls through
AgoPhrase(date_str, today) ==
    IF ~Contains(date_str, W_ago) THEN None
    ELSE
    LET parts == Split(Strip(Replace(date_str, W_ago, << >>)))
    IN  IF Len(parts) < 2 THEN None
        ELSE
        LET amount == ParseInt(parts[1])
            unit == RStripChar(parts[2], "s")
        IN  IF ~amount.ok THEN None
            ELSE IF unit \in {W_day, W_days}
                 THEN Some(AddDays(today, 0 - amount.val))
            ELSE IF unit \in {W_week, W_weeks}
                 THEN Some(AddWeeks(today, 0 - amount.val))
            ELSE IF unit \in {W_month, W_months}
                 THEN LET r == SubRelativeDelta(today, 0, amount.val)
                      IN  IF r.ok THEN Some(r.dt) ELSE None
            ELSE IF unit \in {W_year, W_years}
                 THEN LET r == SubRelativeDelta(today, amount.val, 0)
                      IN  IF r.ok THEN Some(r.dt) ELSE None
            ELSE None

\* lines 100-117
InPhrase(date_str, today) ==
    IF ~StartsWith(date_str, W_in) THEN None
    ELSE
    LET parts == Split(DropFirst(date_str, 3))
    IN  IF Len(parts) < 2 THEN None
        ELSE
        LET amount == ParseInt(parts[1])
            unit == RStripChar(parts[2], "s")
        IN  IF ~amount.ok THEN None
            ELSE IF unit \in {W_day, W_days}
                 THEN Some(AddDays(today, amount.val))
            ELSE IF unit \in {W_week, W_weeks}
                 THEN Some(AddWeeks(today, amount.val))
            ELSE IF unit \in {W_month, W_months}
                 THEN LET r == AddRelativeDelta(today, 0, amount.val)
                      IN  IF r.ok THEN Some(r.dt) ELSE None
            ELSE IF unit \in {W_year, W_years}
                 THEN LET r == AddRelativeDelta(today, amount.val, 0)
                      IN  IF r.ok THEN Some(r.dt) ELSE None
            ELSE None

\* lines 119-125
SimpleTerm(date_str, today) ==
    IF date_str = W_today THEN Some(today)
    ELSE IF date_str = W_yesterday THEN Some(AddDays(today, 0 - 1))
    ELSE IF date_str = W_tomorrow THEN Some(AddDays(today, 1))
    ELSE None

\* the datetime of a successful parse at midnight, None for a ValueError
AtMidnight(r) == IF r.ok THEN Some(Midnight(r.dt)) ELSE None

\* lines 127-132
DateutilDate(date_str, today) == AtMidnight(DateutilParse(date_str, today))

\* lines 134-136
StrptimeDate(date_str) == AtMidnight(Strptime(date_str))

\* the first strategy that returns decides
OrElse(first, next) == IF IsNone(first) THEN next ELSE first

\* the return value, or the ValueError of line 138
Parsed(found, date_str) ==
    IF IsNone(found)
    THEN [ok |-> FALSE,
          error |-> << MsgCouldNotParse >> \o date_str \o << MsgTryFormats >>]
    ELSE [ok |-> TRUE, dt |-> Get(found)]

parse_human_date(raw, now) ==
    LET today == Midnight(now)
        date_str == Lower(Strip(raw))
    IN  Parsed(OrElse(AgoPhrase(date_str, today),
               OrElse(InPhrase(date_str, today),
               OrElse(SimpleTerm(date_str, today),
               OrElse(DateutilDate(date_str, today),
                      StrptimeDate(date_str))))),
               date_str)

(***************************************************************************)
(* parse_date_arguments.  clock holds what the successive calls of         *)
(* datetime.now() return: clock[1] at line 148, clock[2] inside the        *)
(* parse_human_date of the start, clock[3] inside that of the end.         *)
(* `if start_date:` takes None and the empty string alike as "not given".  *)
(***************************************************************************)
Truthy(o) == ~IsNone(o) /\ Get(o) # << >>

\* lines 162-168: the end when no end date is given.  The faulty variant compares
\* the other way round.
DefaultEndSwapped(start_dt, today) ==
    IF DtLeq(start_dt, today)
    THEN EndOfDay(AddDays(start_dt, 14))
    ELSE EndOfDay(today)

\* faulty variant: sends a start equal to today to the "past" branch
DefaultEndStrict(start_dt, today) ==
    IF DtLess(today, start_dt)
    THEN EndOfDay(AddDays(start_dt, 14))
    ELSE EndOfDay(today)

DefaultEnd(start_dt, today) ==
    IF DtLeq(today, start_dt)
    THEN EndOfDay(AddDays(start_dt, 14))
    ELSE EndOfDay(today)

\* lines 157-159: the range with the end that was given, or its ValueError
ExplicitEnd(start_dt, e) ==
    IF e.ok THEN [ok |-> TRUE, start |-> start_dt, end |-> EndOfDay(e.dt)] ELSE e

\* lines 156-170, s being the outcome of lines 151-154
RangeFrom(s, end_date, clock, today) ==
    IF ~s.ok THEN s
    ELSE IF Truthy(end_date)
         THEN ExplicitEnd(s.dt, parse_human_date(Get(end_date), clock[3]))
         ELSE [ok |-> TRUE, start |-> s.dt, end |-> DefaultEnd(s.dt, today)]

parse_date_arguments(start_date, end_date, clock) ==
    RangeFrom(IF Truthy(start_date) THEN parse_human_date(Get(start_date), clock[2])
              ELSE [ok |-> TRUE, dt |-> Midnight(clock[1])],
              end_date, clock, Midnight(clock[1]))

(***************************************************************************)
(* Inputs.                                                                 *)
(***************************************************************************)
MaxAmount == 14

Units == {W_day, W_week, W_month, W_year}

Plural(unit, plural) == IF plural THEN unit \o << "s" >> ELSE unit

\* "<n> <unit>[s] ago"
AgoStr(n, unit, plural) ==
    Str(n) \o << " " >> \o Plural(unit, plural) \o << " " >> \o W_ago

\* "in <n> <unit>[s]"
InStr(n, unit, plural) == W_in \o Str(n) \o << " " >> \o Plural(unit, plural)

\* "YYYY-MM-DD"
IsoDate(y, m, d) == Pad(y, 4) \o << "-" >> \o Pad(m, 2) \o << "-" >> \o Pad(d, 2)

AgoInputs == {AgoStr(n, u, p) : n \in 1..MaxAmount, u \in Units, p \in BOOLEAN}

InInputs == {InStr(n, u, p) : n \in 1..2, u \in Units, p \in BOOLEAN}

\* "  2 Weeks Ago ", "Tomorrow", "x weeks ago", "3 fortnights ago", "ago",
\* "Next Mnday", "2024-13-45", " Soon"
OtherInputs ==
    { W_today, W_yesterday, W_tomorrow,
      IsoDate(2024, 6, 10), IsoDate(2024, 1, 1), IsoDate(2030, 1, 1),
      << " ", " ", "2", " ", "W", "e", "e", "k", "s", " ", "A", "g", "o", " " >>,
      << "T", "o", "m", "o", "r", "r", "o", "w" >>,
      << "x", " ", "w", "e", "e", "k", "s", " ", "a", "g", "o" >>,
      << "3", " ", "f", "o", "r", "t", "n", "i", "g", "h", "t", "s", " ", "a", "g", "o" >>,
      W_ago,
      << "N", "e", "x", "t", " ", "M", "n", "d", "a", "y" >>,
      IsoDate(2024, 13, 45),
      << " ", "S", "o", "o", "n" >> }

HumanDateInputs == AgoInputs \cup InInputs \cup OtherInputs

\* readings of the local wall clock
Clocks ==
    { DateTime(2024, 3, 31, 13, 45, 10, 500000),
      DateTime(2024, 2, 29, 0, 0, 0, 0),
      DateTime(2024, 1, 1, 23, 59, 59, 999999),
      DateTime(2023, 5, 31, 8, 0, 0, 1),
      DateTime(2024, 6, 10, 9, 30, 0, 0),
      DateTime(2025, 12, 31, 18, 5, 59, 0) }

Idle ==
    /\ date_range = None
    /\ user_email = None
    /\ events = << >>
    /\ filtered_events = << >>
    /\ idx = 0
    /\ stdout = << >>
    /\ stderr = << >>
    /\ exit_code = None
    /\ calls = << >>

RunVars == << date_range, user_email, events, filtered_events, idx,
              stdout, stderr, exit_code, calls >>

(***************************************************************************)
(* parse_human_date applied to one input.                                  *)
(***************************************************************************)
InitHuman ==
    /\ pc = "parse_human_date"
    /\ arg \in [date_str : HumanDateInputs, now : Clocks]
    /\ ret = None
    /\ Idle

CallParseHumanDate ==
    /\ pc = "parse_human_date"
    /\ ret' = Some(parse_human_date(arg.date_str, arg.now))
    /\ pc' = "returned"
    /\ UNCHANGED << arg, RunVars >>

NextHuman == CallParseHumanDate

SpecHuman == InitHuman /\ [][NextHuman]_vars

(***************************************************************************)
(* parse_date_arguments applied to one pair of arguments.                  *)
(***************************************************************************)
ClockLate == DateTime(2024, 1, 1, 23, 59, 59, 999999)
ClockEarly == DateTime(2024, 1, 2, 0, 0, 0, 4)

\* the three readings of one call: the same instant's day, or midnight passing
\* between two of them
ClockReadings ==
    {<< t, t, t >> : t \in Clocks}
        \cup {<< ClockLate, ClockEarly, ClockEarly >>,
              << ClockLate, ClockLate, ClockEarly >>}

StartArgs == {None, Some(<< >>)} \cup {Some(s) : s \in HumanDateInputs}

EndArgs ==
    {None, Some(<< >>)}
        \cup {Some(s) : s \in { W_today, W_yesterday, W_tomorrow,
                                InStr(1, W_week, FALSE), AgoStr(1, W_month, FALSE),
                                IsoDate(2024, 6, 10), IsoDate(2030, 1, 1),
                                << "N", "e", "x", "t", " ", "M", "n", "d", "a", "y" >> }}

InitResolve ==
    /\ pc = "parse_date_arguments"
    /\ arg \in [start_date : StartArgs, end_date : EndArgs, clock : ClockReadings]
    /\ ret = None
    /\ Idle

CallParseDateArguments ==
    /\ pc = "parse_date_arguments"
    /\ ret' = Some(parse_date_arguments(arg.start_date, arg.end_date, arg.clock))
    /\ pc' = "resolved"
    /\ UNCHANGED << arg, RunVars >>

NextResolve == CallParseDateArguments

SpecResolve == InitResolve /\ [][NextResolve]_vars

(***************************************************************************)
(* Properties of the date range resolver.                                  *)
(***************************************************************************)
ValidDate(dt) ==
    /\ dt.year \in MINYEAR..MAXYEAR
    /\ dt.month \in 1..12
    /\ dt.day \in 1..DaysInMonth(dt.year, dt.month)

IsMidnight(dt) ==
    dt.hour = 0 /\ dt.minute = 0 /\ dt.second = 0 /\ dt.microsecond = 0

IsEndOfDay(dt) ==
    dt.hour = 23 /\ dt.minute = 59 /\ dt.second = 59 /\ dt.microsecond = 999999

Min(a, b) == IF a < b THEN a ELSE b

\* r is the day T minus n units, at midnight: a count of days for day and
\* week, a shift of the month or year field with the day clamped to the
\* length of the target month for month and year
MinusUnits(r, T, n, unit) ==
    LET k == T.year * 12 + (T.month - 1) - n
    IN  /\ ValidDate(r)
        /\ IsMidnight(r)
        /\ unit = W_day => Ymd2Ord(r.year, r.month, r.day) = Ordinal(T) - n
        /\ unit = W_week => Ymd2Ord(r.year, r.month, r.day) = Ordinal(T) - 7 * n
        /\ unit = W_month =>
              /\ r.year = k \div 12
              /\ r.month = (k % 12) + 1
              /\ r.day = Min(T.day, DaysInMonth(k \div 12, (k % 12) + 1))
        /\ unit = W_year =>
              /\ r.year = T.year - n
              /\ r.month = T.month
              /\ r.day = Min(T.day, DaysInMonth(T.year - n, T.month))

\* C9: for every n > 0 and every unit day, week, month, year, singular or
\* plural, parse_human_date("<n> <unit> ago") on a day T returns midnight of T
\* minus n units; month and year shift the calendar field and clamp the day
\* of month to the last day of the target month.
C9_AgoSubtractsUnits ==
    pc = "returned" =>
        \A n \in 1..MaxAmount, u \in Units, p \in BOOLEAN :
            arg.date_str = AgoStr(n, u, p) =>
                /\ Get(ret).ok
                /\ MinusUnits(Get(ret).dt, arg.now, n, u)

\* "1 month ago" on 2024-03-31 is 2024-02-29
C9_Witness ==
    /\ pc = "returned"
    /\ arg.date_str = AgoStr(1, W_month, FALSE)
    /\ arg.now = DateTime(2024, 3, 31, 13, 45, 10, 500000)
    /\ Get(ret) = [ok |-> TRUE, dt |-> DateTime(2024, 2, 29, 0, 0, 0, 0)]

NoEndGiven == ~Truthy(arg.end_date)

C10_Original ==
    (pc = "resolved" /\ Get(ret).ok) => DtLeq(Get(ret).start, Get(ret).end)

\* C10 amended: every range returned for an absent end argument has
\* start <= end.
C10_OrderedWithoutEnd ==
    (pc = "resolved" /\ NoEndGiven /\ Get(ret).ok) =>
        DtLeq(Get(ret).start, Get(ret).end)

\* a start in the future and one in the past, no end
C10_Witness ==
    /\ pc = "resolved"
    /\ NoEndGiven
    /\ arg.start_date \in {Some(W_tomorrow), Some(W_yesterday)}
    /\ Get(ret).ok
    /\ DtLess(Get(ret).start, Get(ret).end)

(***************************************************************************)
(* Aware datetime values: the fields of the wall clock and the UTC offset  *)
(* of the zone, in minutes.  The local zone of the process is a fixed      *)
(* offset tz.                                                              *)
(***************************************************************************)
Aware(dt, offset) == [dt |-> dt, utcoffset |-> offset]

\* the wall clock dt at second total of its day; total may lie outside the day
AtSecond(dt, total) ==
    ReplaceTime(AddDays(dt, total \div 86400),
                (total % 86400) \div 3600, ((total % 86400) % 3600) \div 60,
                (total % 86400) % 60, dt.microsecond)

\* dt + timedelta(minutes=mins)
ShiftMinutes(dt, mins) == AtSecond(dt, SecondOfDay(dt) + mins * 60)

\* a.astimezone(): the same instant on the wall clock of the local zone
AsTimezone(a, tz) == Aware(ShiftMinutes(a.dt, tz - a.utcoffset), tz)

\* a > b on aware datetimes: the instants are compared
AwareGreater(a, b) ==
    DtLess(ShiftMinutes(b.dt, 0 - b.utcoffset), ShiftMinutes(a.dt, 0 - a.utcoffset))

\* dt.strftime('%Y-%m-%d')
StrftimeDate(dt) ==
    Pad(dt.year, 4) \o << "-" >> \o Pad(dt.month, 2) \o << "-" >> \o Pad(dt.day, 2)

\* dt.strftime('%H:%M:%S')
StrftimeTime(dt) ==
    Pad(dt.hour, 2) \o << ":" >> \o Pad(dt.minute, 2) \o << ":" >> \o Pad(dt.second, 2)

(***************************************************************************)
(* datetime.fromisoformat on the timestamps of the model:                  *)
(* YYYY-MM-DD, one separator character, HH:MM:SS, and optionally a UTC     *)
(* offset +HH:MM or -HH:MM.  Every other string of the model is a          *)
(* ValueError.  aware tells whether the result has a tzinfo.               *)
(***************************************************************************)
TwoDigits(s) == Len(s) = 2 /\ AllDigits(s)

FromIsoFormat(s) ==
    LET bad == [ok |-> FALSE, aware |-> FALSE, dt |-> DateTime(1, 1, 1, 0, 0, 0, 0),
                utcoffset |-> 0]
        ys == SubSeq(s, 1, 4)
        ms == SubSeq(s, 6, 7)
        ds == SubSeq(s, 9, 10)
        hs == SubSeq(s, 12, 13)
        mis == SubSeq(s, 15, 16)
        ss == SubSeq(s, 18, 19)
        ohs == SubSeq(s, 21, 22)
        oms == SubSeq(s, 24, 25)
        shaped ==
            /\ Len(s) \in {19, 25}
            /\ AllDigits(ys) /\ s[5] = "-" /\ TwoDigits(ms) /\ s[8] = "-" /\ TwoDigits(ds)
            /\ TwoDigits(hs) /\ s[14] = ":" /\ TwoDigits(mis) /\ s[17] = ":"
            /\ TwoDigits(ss)
            /\ Len(s) = 25 =>
                   /\ s[20] \in {"+", "-"}
                   /\ TwoDigits(ohs) /\ s[23] = ":" /\ TwoDigits(oms)
        y == DigitsValue(ys)
        m == DigitsValue(ms)
        d == DigitsValue(ds)
        inRange ==
            /\ y >= MINYEAR /\ m \in 1..12 /\ d >= 1 /\ d <= DaysInMonth(y, m)
            /\ DigitsValue(hs) < 24 /\ DigitsValue(mis) < 60 /\ DigitsValue(ss) < 60
            /\ Len(s) = 25 => (DigitsValue(ohs) < 24 /\ DigitsValue(oms) < 60)
        off == (DigitsValue(ohs) * 60 + DigitsValue(oms))
                   * (IF s[20] = "-" THEN 0 - 1 ELSE 1)
    IN  IF shaped /\ inRange
        THEN [ok |-> TRUE, aware |-> Len(s) = 25,
              dt |-> DateTime(y, m, d, DigitsValue(hs), DigitsValue(mis),
                              DigitsValue(ss), 0),
              utcoffset |-> IF Len(s) = 25 THEN off ELSE 0]
        ELSE bad

UtcSuffix == << "+", "0", "0", ":", "0", "0" >>

\* lines 237-240 and 276-279: a trailing Z is read as +00:00
ParseDateTime(s) ==
    IF EndsWith(s, << "Z" >>)
    THEN FromIsoFormat(SubSeq(s, 1, Len(s) - 1) \o UtcSuffix)
    ELSE FromIsoFormat(s)

(***************************************************************************)
(* Events: dicts of the provider.  Every key is optional.                  *)
(***************************************************************************)
\* x or y
Or(x, y) == IF Truthy(x) THEN x ELSE y

\* event.get('attendees', []), event.get('attachments', [])
ListOf(o) == IF IsNone(o) THEN << >> ELSE Get(o)

\* attendee.get('email', '')
EmailOf(attendee) == IF IsNone(attendee.email) THEN << >> ELSE Get(attendee.email)

RECURSIVE AnyEmailMatches(_, _)
AnyEmailMatches(attendees, email) ==
    IF attendees = << >> THEN FALSE
    ELSE IF Lower(EmailOf(Head(attendees))) = Lower(email) THEN TRUE
    ELSE AnyEmailMatches(Tail(attendees), email)

\* faulty variant: ends the loop of is_user_invited with True
is_user_invited_open(event, email) == TRUE

\* faulty variant: has no `if not attendees` guard
is_user_invited_strict(event, email) ==
    AnyEmailMatches(ListOf(event.attendees), email)

is_user_invited(event, email) ==
    LET attendees == ListOf(event.attendees)
    IN  IF attendees = << >> THEN TRUE ELSE AnyEmailMatches(attendees, email)

RECURSIVE FirstMatchDeclined(_, _)
FirstMatchDeclined(attendees, email) ==
    IF attendees = << >> THEN FALSE
    ELSE IF Lower(EmailOf(Head(attendees))) = Lower(email)
         THEN Head(attendees).responseStatus = Some("declined")
         ELSE FirstMatchDeclined(Tail(attendees), email)

has_user_declined(event, email) ==
    LET attendees == ListOf(event.attendees)
    IN  IF attendees = << >> THEN FALSE ELSE FirstMatchDeclined(attendees, email)

\* attendee.get('responseStatus', 'needsAction')
StatusOf(attendee) ==
    IF IsNone(attendee.responseStatus) THEN "needsAction"
    ELSE Get(attendee.responseStatus)

RECURSIVE AcceptedOf(_)
AcceptedOf(attendees) ==
    IF attendees = << >> THEN << >>
    ELSE LET a == Head(attendees)
         IN  (IF StatusOf(a) \in {"accepted", "tentative"} /\ Truthy(a.email)
              THEN << Get(a.email) >> ELSE << >>) \o AcceptedOf(Tail(attendees))

get_accepted_attendees(event) == AcceptedOf(ListOf(event.attendees))

\* x.get(key, '')
OrEmpty(o) == IF IsNone(o) THEN "" ELSE Get(o)

get_event_attachments(event) ==
    LET attachments == ListOf(event.attachments)
    IN  [i \in 1..Len(attachments) |->
            [title |-> OrEmpty(attachments[i].title),
             fileUrl |-> OrEmpty(attachments[i].fileUrl),
             mimeType |-> OrEmpty(attachments[i].mimeType)]]

Midnight000 == << "0", "0", ":", "0", "0", ":", "0", "0" >>
LastSecond == << "2", "3", ":", "5", "9", ":", "5", "9" >>

\* lines 243-246: p is the datetime of fromisoformat
LocalDateAndTime(local) == << StrftimeDate(local), StrftimeTime(local) >>

FormatParsed(p, tz) ==
    IF ~p.ok THEN << << >>, << >> >>
    ELSE IF p.aware THEN LocalDateAndTime(AsTimezone(Aware(p.dt, p.utcoffset), tz).dt)
    ELSE LocalDateAndTime(p.dt)

\* format_datetime(dt_str): << date, time >>
format_datetime(dt_str, tz) ==
    IF ~Truthy(dt_str) THEN << << >>, << >> >>
    ELSE IF Contains(Get(dt_str), << "T" >>)
         THEN FormatParsed(ParseDateTime(Get(dt_str)), tz)
         ELSE << Get(dt_str), Midnight000 >>

\* faulty variant: excludes a declined event that starts exactly now
DeclineWindowOpenInclusive(event_dt, now) == ~AwareGreater(now, event_dt)

\* line 290: event_dt > now
DeclineWindowOpen(event_dt, now) == AwareGreater(event_dt, now)

\* the aware local datetime of a successful parse read at offset, None for a
\* ValueError
LocalStart(p, offset, tz) ==
    IF p.ok THEN Some(AsTimezone(Aware(p.dt, offset), tz)) ELSE None

\* lines 276-283: a naive timestamp is taken as UTC
TimestampStart(p, tz) == LocalStart(p, p.utcoffset, tz)

\* lines 274-287: Some(event_dt), or None for the ValueError
EventStart(s, tz) ==
    IF Contains(s, << "T" >>)
    THEN TimestampStart(ParseDateTime(s), tz)
    ELSE LocalStart(Strptime(s), 0, tz)

\* event.get('start', {}), event.get('end', {})
TimeOf(o) == IF IsNone(o) THEN [dateTime |-> None, date |-> None] ELSE Get(o)

\* start.get('dateTime') or start.get('date')
TimeString(t) == Or(t.dateTime, t.date)

\* line 290
DeclinedAhead(event_dt, now, event, email) ==
    /\ ~IsNone(event_dt)
    /\ DeclineWindowOpen(Get(event_dt), now)
    /\ has_user_declined(event, email)

\* lines 273-293
ExcludedAsDeclined(start_time_str, event, email, now, tz) ==
    /\ Truthy(start_time_str)
    /\ DeclinedAhead(EventStart(Get(start_time_str), tz), now, event, email)

should_include_event(event, email, now, tz) ==
    IF event.eventType = Some("workingLocation") THEN FALSE
    ELSE IF ~is_user_invited(event, email) THEN FALSE
    ELSE ~ExcludedAsDeclined(TimeString(TimeOf(event.start)), event, email, now, tz)

\* lines 338-351: s and e are the results of format_datetime
FormattedRecord(event, s, e, allDay) ==
    [date |-> s[1],
     start_time |-> IF allDay THEN Midnight000 ELSE s[2],
     end_time |-> IF allDay THEN LastSecond ELSE e[2],
     title |-> IF IsNone(event.summary) THEN "No Title" ELSE Get(event.summary),
     accepted_attendees |-> get_accepted_attendees(event),
     attachments |-> get_event_attachments(event)]

\* lines 339-342
AllDay(s, start) == (s[2] = << >> \/ s[2] = Midnight000) /\ Truthy(start.date)

FormatTimes(event, s, e) == FormattedRecord(event, s, e, AllDay(s, TimeOf(event.start)))

\* lines 332-351: the record of an included event
FormatEvent(event, tz) ==
    FormatTimes(event,
                format_datetime(TimeString(TimeOf(event.start)), tz),
                format_datetime(TimeString(TimeOf(event.end)), tz))

\* lines 330-353: one iteration of the loop; None when the event is left out
ProcessEvent(event, email, now, tz) ==
    IF should_include_event(event, email, now, tz)
    THEN Some(FormatEvent(event, tz))
    ELSE None

(***************************************************************************)
(* Events of the model.                                                    *)
(***************************************************************************)
\* "YYYY-MM-DDTHH:MM:SS" followed by suffix
Rfc3339(y, m, d, hh, mi, ss, suffix) ==
    IsoDate(y, m, d) \o << "T" >> \o Pad(hh, 2) \o << ":" >> \o Pad(mi, 2)
        \o << ":" >> \o Pad(ss, 2) \o suffix

Z == << "Z" >>
Plus0200 == << "+", "0", "2", ":", "0", "0" >>
Minus0500 == << "-", "0", "5", ":", "0", "0" >>

DateTimeKey(s) == Some([dateTime |-> Some(s), date |-> None])
DateKey(s) == Some([dateTime |-> None, date |-> Some(s)])

\* "2024-06-1xT09:00:00Z"
BadTimestamp ==
    << "2", "0", "2", "4", "-", "0", "6", "-", "1", "x", "T",
       "0", "9", ":", "0", "0", ":", "0", "0", "Z" >>

\* the instant the filter runs at is 2024-06-10 12:00:00 UTC
NowUtc == Aware(DateTime(2024, 6, 10, 12, 0, 0, 0), 0)

StartValues ==
    { None,
      DateTimeKey(Rfc3339(2024, 6, 9, 12, 0, 0, Z)),
      DateTimeKey(Rfc3339(2024, 6, 10, 12, 0, 0, Z)),
      DateTimeKey(Rfc3339(2024, 6, 10, 14, 0, 0, Plus0200)),
      DateTimeKey(Rfc3339(2024, 6, 10, 14, 0, 1, Plus0200)),
      DateTimeKey(Rfc3339(2024, 6, 10, 23, 30, 0, Minus0500)),
      DateTimeKey(Rfc3339(2024, 6, 11, 9, 0, 0, << >>)),
      DateKey(IsoDate(2024, 6, 11)),
      DateKey(IsoDate(2024, 6, 10)),
      DateTimeKey(BadTimestamp),
      DateTimeKey(W_tomorrow),
      DateKey(IsoDate(2024, 13, 45)),
      Some([dateTime |-> Some(<< >>), date |-> Some(IsoDate(2024, 6, 11))]),
      Some([dateTime |-> Some(BadTimestamp), date |-> Some(IsoDate(2024, 6, 11))]) }

EndValues ==
    { None,
      DateTimeKey(Rfc3339(2024, 6, 12, 10, 0, 0, Z)),
      DateKey(IsoDate(2024, 6, 12)),
      DateTimeKey(BadTimestamp),
      DateKey(IsoDate(2024, 13, 45)) }

E_me == << "m", "e", "@", "x" >>
E_Me == << "M", "e", "@", "X" >>
E_bob == << "b", "o", "b", "@", "x" >>

Attendee(email, status) == [email |-> email, responseStatus |-> status]

MeAccepted == Attendee(Some(E_me), Some("accepted"))
MeDeclined == Attendee(Some(E_me), Some("declined"))
MeUpperDeclined == Attendee(Some(E_Me), Some("declined"))
MeNoStatus == Attendee(Some(E_me), None)
BobAccepted == Attendee(Some(E_bob), Some("accepted"))
BobDeclined == Attendee(Some(E_bob), Some("declined"))
BobTentative == Attendee(Some(E_bob), Some("tentative"))
BobNeedsAction == Attendee(Some(E_bob), Some("needsAction"))
NoEmailAccepted == Attendee(None, Some("accepted"))
NoEmailDeclined == Attendee(None, Some("declined"))

AttendeeLists ==
    { None, Some(<< >>),
      Some(<< MeAccepted >>), Some(<< MeDeclined >>), Some(<< MeUpperDeclined >>),
      Some(<< MeNoStatus >>), Some(<< BobAccepted >>), Some(<< BobDeclined >>),
      Some(<< NoEmailAccepted >>), Some(<< NoEmailDeclined >>),
      Some(<< BobTentative, MeAccepted >>), Some(<< BobDeclined, MeAccepted >>),
      Some(<< BobAccepted, MeDeclined >>), Some(<< MeDeclined, MeAccepted >>),
      Some(<< MeAccepted, MeUpperDeclined >>),
      Some(<< BobNeedsAction, NoEmailAccepted >>),
      Some(<< BobTentative, BobDeclined, MeUpperDeclined >>) }

EventTypes == {None, Some("default"), Some("workingLocation")}

\* an event with a summary and an attachment that has no mimeType, or with
\* neither key
SummaryFor(eventType) == IF eventType = Some("default") THEN Some("Standup") ELSE None

AttachmentsFor(eventType) ==
    IF eventType = Some("default")
    THEN Some(<< [title |-> Some("Notes"), fileUrl |-> Some("https://x/notes"),
                  mimeType |-> None] >>)
    ELSE None

Event(eventType, attendees, start, end) ==
    [eventType |-> eventType, attendees |-> attendees, start |-> start, end |-> end,
     summary |-> SummaryFor(eventType), attachments |-> AttachmentsFor(eventType)]

Events ==
    {Event(t, a, s, e) : t \in EventTypes, a \in AttendeeLists,
                         s \in StartValues, e \in EndValues}

UserEmails == {E_me, E_Me, << >>}

\* UTC offsets of the local zone, in minutes
LocalZones == {0, 0 - 300, 330}

(***************************************************************************)
(* One iteration of the loop of fetch_calendar_events applied to one       *)
(* event: should_include_event, and the formatting when it is included.    *)
(***************************************************************************)
InitFilter ==
    /\ pc = "should_include_event"
    /\ \E tz \in LocalZones :
          arg \in [event : Events, user_email : UserEmails,
                   now : {AsTimezone(NowUtc, tz)}, tz : {tz}]
    /\ ret = None
    /\ Idle

CallProcessEvent ==
    /\ pc = "should_include_event"
    /\ ret' = Some([include |-> should_include_event(arg.event, arg.user_email,
                                                     arg.now, arg.tz),
                    formatted |-> ProcessEvent(arg.event, arg.user_email,
                                               arg.now, arg.tz)])
    /\ pc' = "filtered"
    /\ UNCHANGED << arg, RunVars >>

NextFilter == CallProcessEvent

SpecFilter == InitFilter /\ [][NextFilter]_vars

(***************************************************************************)
(* Properties of the event filter and formatter.                           *)
(***************************************************************************)
Matches(attendee, email) == Lower(EmailOf(attendee)) = Lower(email)

\* the user is among the attendees, emails compared without case
Listed(event, email) ==
    \E i \in 1..Len(ListOf(event.attendees)) :
        Matches(ListOf(event.attendees)[i], email)

\* the user's own entry, the first one with the user's email, is a decline
OwnEntryDeclined(event, email) ==
    LET att == ListOf(event.attendees)
    IN  \E i \in 1..Len(att) :
            /\ Matches(att[i], email)
            /\ att[i].responseStatus = Some("declined")
            /\ \A j \in 1..(i - 1) : ~Matches(att[j], email)

\* the wall clock of an aware datetime at UTC
Utc(a) == ShiftMinutes(a.dt, 0 - a.utcoffset)

\* the value of a start or end: the dateTime key read as a timestamp, else
\* the date key read as a date at UTC midnight.  [given, ok, utc]
TimeValue(o) ==
    LET t == TimeOf(o)
        p == ParseDateTime(Get(t.dateTime))
        d == ParseYmd(Get(t.date))
    IN  IF Truthy(t.dateTime)
        THEN [given |-> TRUE, ok |-> p.ok, utc |-> ShiftMinutes(p.dt, 0 - p.utcoffset)]
        ELSE IF Truthy(t.date)
             THEN [given |-> TRUE, ok |-> d.ok, utc |-> d.dt]
             ELSE [given |-> FALSE, ok |-> FALSE, utc |-> DateTime(1, 1, 1, 0, 0, 0, 0)]

StartsAfter(event, now) ==
    TimeValue(event.start).ok /\ DtLess(Utc(now), TimeValue(event.start).utc)

Malformed(o) == TimeValue(o).given /\ ~TimeValue(o).ok

NoAttendees(event) == ListOf(event.attendees) = << >>

\* C2: an event that is not a workingLocation event and to which the user is
\* invited is excluded exactly when its start instant is strictly after now
\* and the user's own attendee entry is a decline; an event starting at or
\* before now, or with an unparseable start, is not excluded for a decline.
C2_DeclineRule ==
    ( /\ pc = "filtered"
      /\ arg.event.eventType # Some("workingLocation")
      /\ (NoAttendees(arg.event) \/ Listed(arg.event, arg.user_email)) ) =>
        ( Get(ret).include <=>
            ~(StartsAfter(arg.event, arg.now)
                /\ OwnEntryDeclined(arg.event, arg.user_email)) )

\* a declined event that starts at the very instant of now is kept
C2_Witness ==
    /\ pc = "filtered"
    /\ arg.event.eventType = None
    /\ arg.event.attendees = Some(<< BobAccepted, MeDeclined >>)
    /\ arg.event.start = DateTimeKey(Rfc3339(2024, 6, 10, 14, 0, 0, Plus0200))
    /\ arg.user_email = E_Me
    /\ arg.tz = 330
    /\ Get(ret).include

\* C3: an event with a non-empty attendees list where no attendee email
\* equals user_email without case is excluded, whatever its start, eventType
\* and now.
C3_NotInvitedExcluded ==
    ( /\ pc = "filtered"
      /\ ~NoAttendees(arg.event)
      /\ ~Listed(arg.event, arg.user_email) ) =>
        (~Get(ret).include /\ Get(ret).formatted = None)

C3_Witness ==
    /\ pc = "filtered"
    /\ arg.event.eventType = Some("default")
    /\ arg.event.attendees = Some(<< BobAccepted >>)
    /\ arg.event.start = DateTimeKey(Rfc3339(2024, 6, 9, 12, 0, 0, Z))
    /\ arg.user_email = E_me
    /\ ~Get(ret).include

\* C4 as stated: an event with an absent or empty attendees list is always
\* included, whatever its other fields, with accepted_attendees = [].
C4_Original ==
    (pc = "filtered" /\ NoAttendees(arg.event)) =>
        /\ Get(ret).include
        /\ Get(ret).formatted # None
        /\ Get(Get(ret).formatted).accepted_attendees = << >>

\* C4 amended: an event with an absent or empty attendees list whose
\* eventType is not workingLocation is always included, with
\* accepted_attendees = [].
C4_NoAttendeesIncluded ==
    ( /\ pc = "filtered"
      /\ NoAttendees(arg.event)
      /\ arg.event.eventType # Some("workingLocation") ) =>
        /\ Get(ret).include
        /\ Get(ret).formatted # None
        /\ Get(Get(ret).formatted).accepted_attendees = << >>

C4_Witness ==
    /\ pc = "filtered"
    /\ arg.event.attendees = Some(<< >>)
    /\ arg.event.eventType = Some("default")
    /\ arg.event.start = DateKey(IsoDate(2024, 6, 11))
    /\ Get(ret).include
    /\ Get(Get(ret).formatted).accepted_attendees = << >>

\* C8 as stated: an included event whose start or end value is malformed, in
\* the dateTime key or in the date key, is still emitted, with date "" and
\* the corresponding time "".
C8_Original ==
    (pc = "filtered" /\ Get(ret).include) =>
        /\ Get(ret).formatted # None
        /\ Malformed(arg.event.start) =>
              /\ Get(Get(ret).formatted).date = << >>
              /\ Get(Get(ret).formatted).start_time = << >>
        /\ Malformed(arg.event.end) => Get(Get(ret).formatted).end_time = << >>

(***************************************************************************)
(* The run of main.  A line of a stream is either text, the pieces of the  *)
(* printed string in order, or the JSON document with its events.  An      *)
(* invocation of a collaborator is logged with its outcome.                *)
(***************************************************************************)
TextLine(text) == [kind |-> "text", text |-> text]
JsonDocument(evs) == [kind |-> "json", events |-> evs]
Invocation(fn, outcome) == [fn |-> fn, outcome |-> outcome]

\* faulty variant: prints a fixed text
ErrorLineFixed(error) == << "Error: could not parse the date" >>

\* line 393: f"Error: {e}"
ErrorLine(error) == << "Error: " >> \o error

\* line 396: f"Unexpected error: {e}"
UnexpectedLine(what) == << "Unexpected error: ", what >>

W_redhat == << "@", "r", "e", "d", "h", "a", "t", ".", "c", "o", "m" >>

\* getpass.getuser()
Usernames == {<< "m", "e" >>}

\* the id of the primary calendar
CalendarIds == {E_me, E_Me}

RunEvents ==
    { Event(None, None, DateTimeKey(Rfc3339(2024, 6, 11, 9, 0, 0, Z)),
            DateTimeKey(Rfc3339(2024, 6, 11, 10, 0, 0, Z))),
      Event(Some("default"), Some(<< MeDeclined >>),
            DateTimeKey(Rfc3339(2024, 6, 12, 9, 0, 0, Z)),
            DateTimeKey(Rfc3339(2024, 6, 12, 10, 0, 0, Z))),
      Event(None, Some(<< MeAccepted, BobTentative >>),
            DateTimeKey(BadTimestamp), DateKey(IsoDate(2024, 13, 45))),
      Event(Some("workingLocation"), None, DateKey(IsoDate(2024, 6, 11)),
            DateKey(IsoDate(2024, 6, 12))) }

MaxBatch == 2

RECURSIVE BatchesUpTo(_)
BatchesUpTo(n) ==
    IF n = 0 THEN {<< >>}
    ELSE BatchesUpTo(n - 1)
             \cup {Append(b, e) : b \in BatchesUpTo(n - 1), e \in RunEvents}

Batches == BatchesUpTo(MaxBatch)

MainStartArgs ==
    { None, Some(W_tomorrow), Some(AgoStr(2, W_week, TRUE)),
      Some(<< " ", "S", "o", "o", "n" >>),
      Some(<< "N", "e", "x", "t", " ", "M", "n", "d", "a", "y" >>),
      Some(<< "x", " ", "w", "e", "e", "k", "s", " ", "a", "g", "o" >>) }

MainEndArgs ==
    { None, Some(InStr(1, W_week, FALSE)),
      Some(<< "N", "e", "x", "t", " ", "M", "n", "d", "a", "y" >>) }

MainClocks ==
    { << DateTime(2024, 6, 10, 9, 30, 0, 0), DateTime(2024, 6, 10, 9, 30, 0, 0),
         DateTime(2024, 6, 10, 9, 30, 0, 0) >>,
      << ClockLate, ClockLate, ClockEarly >> }

Init ==
    /\ pc = "main"
    /\ arg \in [start_date : MainStartArgs, end_date : MainEndArgs,
                clock : MainClocks, tz : {0, 0 - 300}]
    /\ ret = None
    /\ Idle

Exit(code) == exit_code' = Some(code) /\ pc' = "exit"

\* lines 385-386 and 392-394, r being what parse_date_arguments returned or raised
MainResolved(r) ==
    IF r.ok
    THEN /\ date_range' = Some(r)
         /\ pc' = "get_credentials"
         /\ UNCHANGED << stderr, exit_code >>
    ELSE /\ stderr' = Append(stderr, TextLine(ErrorLine(r.error)))
         /\ Exit(1)
         /\ UNCHANGED date_range

MainParseDates ==
    /\ pc = "main"
    /\ MainResolved(parse_date_arguments(arg.start_date, arg.end_date, arg.clock))
    /\ UNCHANGED << arg, ret, user_email, events, filtered_events, idx, stdout, calls >>

\* lines 299-300: a valid, refreshed or newly granted token
CredentialsOk ==
    /\ pc = "get_credentials"
    /\ calls' = Append(calls, Invocation("get_credentials", "ok"))
    /\ pc' = "get_user_email"
    /\ UNCHANGED << arg, ret, date_range, user_email, events, filtered_events, idx,
                    stdout, stderr, exit_code >>

\* lines 43-46: no usable token and no credentials.json; sys.exit(1)
CredentialsFileMissing ==
    /\ pc = "get_credentials"
    /\ calls' = Append(calls, Invocation("get_credentials", "no credentials file"))
    /\ stdout' = stdout \o
           << TextLine(<< "Error: Credentials file not found at ", "credentials_path" >>),
              TextLine(<< "Please ensure you have a valid credentials.json file from Google Cloud Console." >>) >>
    /\ Exit(1)
    /\ UNCHANGED << arg, ret, date_range, user_email, events, filtered_events, idx,
                    stderr >>

\* lines 304 and 310
ProgressLines(email) ==
    << TextLine(<< "Fetching events for: " >> \o email),
       TextLine(<< "Date range: " >> \o StrftimeDate(Get(date_range).start)
                    \o << " to " >> \o StrftimeDate(Get(date_range).end)) >>

\* lines 303-310, 63-64: the provider names the primary calendar
UserEmailOk ==
    /\ pc = "get_user_email"
    /\ \E id \in CalendarIds :
          /\ user_email' = Some(id)
          /\ stderr' = stderr \o ProgressLines(id)
    /\ calls' = Append(calls, Invocation("calendars.get", "ok"))
    /\ pc' = "list_events"
    /\ UNCHANGED << arg, ret, date_range, events, filtered_events, idx, stdout,
                    exit_code >>

\* lines 303-310, 65-70: HttpError, the email is derived from the user name
UserEmailHttpError ==
    /\ pc = "get_user_email"
    /\ \E username \in Usernames :
          /\ user_email' = Some(username \o W_redhat)
          /\ stderr' = stderr \o ProgressLines(username \o W_redhat)
    /\ stdout' = Append(stdout,
           TextLine(<< "An error occurred while getting user email: ", "HttpError" >>))
    /\ calls' = Append(calls, Invocation("calendars.get", "HttpError"))
    /\ pc' = "list_events"
    /\ UNCHANGED << arg, ret, date_range, events, filtered_events, idx, exit_code >>

\* lines 312-327: the provider answers with its items
ListEventsOk ==
    /\ pc = "list_events"
    /\ \E items \in Batches :
          /\ events' = items
          /\ stderr' = Append(stderr,
                 TextLine(<< "Found " >> \o Str(Len(items)) \o << " total events" >>))
    /\ filtered_events' = << >>
    /\ idx' = 1
    /\ calls' = Append(calls, Invocation("events.list", "ok"))
    /\ pc' = "loop"
    /\ UNCHANGED << arg, ret, date_range, user_email, stdout, exit_code >>

\* faulty variant: lets the HttpError reach main
ListEventsHttpErrorUncaught ==
    /\ pc = "list_events"
    /\ stderr' = Append(stderr, TextLine(UnexpectedLine("HttpError")))
    /\ calls' = Append(calls, Invocation("events.list", "HttpError"))
    /\ Exit(1)
    /\ UNCHANGED << arg, ret, date_range, user_email, events, filtered_events, idx,
                    stdout >>

\* lines 358-360: HttpError, the fetch returns []
ListEventsHttpError ==
    /\ pc = "list_events"
    /\ stdout' = Append(stdout, TextLine(<< "An error occurred: ", "HttpError" >>))
    /\ filtered_events' = << >>
    /\ calls' = Append(calls, Invocation("events.list", "HttpError"))
    /\ pc' = "output"
    /\ UNCHANGED << arg, ret, date_range, user_email, events, idx, stderr, exit_code >>

\* lines 395-397: any other exception of a collaborator ends the run
UnexpectedError ==
    /\ pc \in {"get_credentials", "get_user_email", "list_events"}
    /\ calls' = Append(calls,
           Invocation(IF pc = "get_credentials" THEN "get_credentials"
                      ELSE IF pc = "get_user_email" THEN "calendars.get"
                      ELSE "events.list", "Exception"))
    /\ stderr' = Append(stderr, TextLine(UnexpectedLine("Exception")))
    /\ Exit(1)
    /\ UNCHANGED << arg, ret, date_range, user_email, events, filtered_events, idx,
                    stdout >>

\* line 327: now = datetime.now().astimezone()
LoopNow == Aware(arg.clock[3], arg.tz)

\* lines 329-353: one iteration
LoopStep ==
    /\ pc = "loop"
    /\ idx <= Len(events)
    /\ filtered_events' =
           filtered_events \o ProcessEvent(events[idx], Get(user_email), LoopNow, arg.tz)
    /\ idx' = idx + 1
    /\ UNCHANGED << pc, arg, ret, date_range, user_email, events, stdout, stderr,
                    exit_code, calls >>

\* lines 355-356
LoopEnd ==
    /\ pc = "loop"
    /\ idx > Len(events)
    /\ stderr' = Append(stderr,
           TextLine(<< "Filtered to " >> \o Str(Len(filtered_events)) \o << " events" >>))
    /\ pc' = "output"
    /\ UNCHANGED << arg, ret, date_range, user_email, events, filtered_events, idx,
                    stdout, exit_code, calls >>

\* lines 389-390, and the normal end of the process
MainOutput ==
    /\ pc = "output"
    /\ stdout' = Append(stdout, JsonDocument(filtered_events))
    /\ Exit(0)
    /\ UNCHANGED << arg, ret, date_range, user_email, events, filtered_events, idx,
                    stderr, calls >>

Next ==
    \/ MainParseDates
    \/ CredentialsOk
    \/ CredentialsFileMissing
    \/ UserEmailOk
    \/ UserEmailHttpError
    \/ ListEventsOk
    \/ ListEventsHttpError
    \/ UnexpectedError
    \/ LoopStep
    \/ LoopEnd
    \/ MainOutput

Spec == Init /\ [][Next]_vars

(***************************************************************************)
(* Properties of the run.                                                  *)
(***************************************************************************)
Invoked(fn, outcome) == \E i \in 1..Len(calls) : calls[i] = Invocation(fn, outcome)

JsonLines(stream) == {i \in 1..Len(stream) : stream[i].kind = "json"}

\* C5 as stated: on every path of a run the standard output carries nothing
\* or exactly one JSON document, never a diagnostic line.
C5_Original ==
    /\ \A i \in 1..Len(stdout) : stdout[i].kind = "json"
    /\ Len(stdout) <= 1

\* C6: when the provider's event-list call fails with an HttpError the run
\* does not abort: main writes the JSON document with an empty events list
\* and the process ends with exit code 0.
C6_ListErrorGivesEmptyDocument ==
    Invoked("events.list", "HttpError") =>
        /\ pc \in {"output", "exit"}
        /\ filtered_events = << >>
        /\ pc = "exit" =>
              /\ exit_code = Some(0)
              /\ stdout[Len(stdout)] = JsonDocument(<< >>)
              /\ Cardinality(JsonLines(stdout)) = 1

C6_Witness ==
    /\ pc = "exit"
    /\ Invoked("events.list", "HttpError")
    /\ exit_code = Some(0)
    /\ stdout[Len(stdout)] = JsonDocument(<< >>)

\* the argument that could not be parsed: the start, or else the end
StartFails ==
    Truthy(arg.start_date) /\ ~parse_human_date(Get(arg.start_date), arg.clock[2]).ok

EndFails ==
    Truthy(arg.end_date) /\ ~parse_human_date(Get(arg.end_date), arg.clock[3]).ok

Offending == IF StartFails THEN Get(arg.start_date) ELSE Get(arg.end_date)

\* the run ended with exit code 1 and one line on stderr that holds what,
\* having used no collaborator and written nothing to stdout
DateErrorRun(what) ==
    /\ exit_code = Some(1)
    /\ Len(stderr) = 1
    /\ stderr[1].kind = "text"
    /\ Head(stderr[1].text) = "Error: "
    /\ Contains(stderr[1].text, what)
    /\ Contains(stderr[1].text, << MsgTryFormats >>)
    /\ calls = << >>
    /\ stdout = << >>

\* C7 as stated: when --start or --end cannot be parsed the run ends with
\* exit code 1 and a message on stderr that contains the offending string and
\* the example formats, no collaborator having been invoked and no JSON
\* written.
C7_Original ==
    (pc = "exit" /\ (StartFails \/ EndFails)) => DateErrorRun(Offending)

\* C7 amended: the message contains the offending string trimmed and in
\* lower case.
C7_DateErrorBeforeCollaborators ==
    (pc = "exit" /\ (StartFails \/ EndFails)) => DateErrorRun(Lower(Strip(Offending)))

\* --start " Soon": the message quotes 'soon'
C7_Witness ==
    /\ pc = "exit"
    /\ arg.start_date = Some(<< " ", "S", "o", "o", "n" >>)
    /\ exit_code = Some(1)
    /\ stderr = << TextLine(<< "Error: ", MsgCouldNotParse, "s", "o", "o", "n",
                               MsgTryFormats >>) >>
    /\ calls = << >>

====
